---- MODULE Spec2Model ----
(***************************************************************************)
(* Payment / webhook reconciliation flow of HaloSitek-BE:                  *)
(* architect registration creates a PENDING Transaction, Midtrans calls    *)
(* the webhook, WebhookService reconciles the Transaction and activates    *)
(* the architect, the hourly cron sweeps expired PENDING transactions and  *)
(* an admin may override a transaction's or an architect's status.         *)
(*                                                                         *)
(* Every async function is split at its awaits: one action per database    *)
(* call or e-mail send, so that handlers interleave as they do on the      *)
(* Node.js event loop.  Nullable columns are sets with at most one         *)
(* element (Null == {}); JavaScript's undefined / "" is the empty string.  *)
(***************************************************************************)
EXTENDS Integers, Sequences, FiniteSets, TLC

(***************************************************************************)
(* Bounds                                                                  *)
(***************************************************************************)
NumArchitects == 2      \* registrations; each creates one architect + one transaction
NumWebhooks   == 2      \* webhook requests in flight at the same time
MaxDeliveries == 2      \* webhook requests received in all
NumSweepers   == 2      \* expiry sweeps in flight at the same time
MaxSweeps     == 2      \* expiry sweeps started in all
MaxAdminOps   == 1      \* admin status overrides
MaxTime       == 2      \* clock ticks (hours)
MaxPaymentInfos == 2    \* payment-info requests received in all
MaxUserRegistrations == 2   \* user registration requests received in all
MaxPasswordChanges == 2     \* admin change-password requests received in all
MaxRequests == 2            \* requests received in all where every kind of request is served

(***************************************************************************)
(* Program constants and configuration                                    *)
(***************************************************************************)
PAYMENT_EXPIRY_HOURS == 1                 \* process.env.PAYMENT_EXPIRY_HOURS
ARCHITECT_REGISTRATION_FEE == 500000      \* default registration fee
serverKey == "SK-server"                  \* process.env.MIDTRANS_SERVER_KEY
clientKey == "CK-client"                  \* process.env.MIDTRANS_CLIENT_KEY
forgedKey == "SK-forged"                  \* a key the sender guessed

Null == {}
Some(v) == {v}

Digit == <<"1", "2", "3", "4">>

ArchitectIds == 1..NumArchitects
WebhookIds   == 1..NumWebhooks
SweeperIds   == 1..NumSweepers

\* orderId / paymentToken generated at registration number i; "ARCH-0" is an
\* order this system never created
generateOrderId(i) == IF i = 0 THEN "ARCH-0" ELSE "ARCH-" \o Digit[i]
generatePaymentToken(i) == "uuid-" \o Digit[i]
getPaymentExpiryDate(t) == t + PAYMENT_EXPIRY_HOURS

OrderIds == {generateOrderId(i) : i \in 0..NumArchitects}

\* the payment tokens issued, and "uuid-0", a token never issued
PaymentTokens == {"uuid-0"} \cup {generatePaymentToken(i) : i \in ArchitectIds}

\* PaymentService.isConfigured
isConfigured == serverKey # "" /\ clientKey # ""

(***************************************************************************)
(* PaymentService: signature and status mapping (pure)                     *)
(***************************************************************************)
\* crypto.createHash('sha512').update(s).digest('hex'): an ideal
\* (collision-free) digest of the input string
Sha512(s) == "sha512(" \o s \o ")"

\* the comparison left out: any signature is taken as valid
verifyWebhookSignatureMutNoCompare(orderId, statusCode, grossAmount, signatureKey) ==
    LET string == orderId \o statusCode \o grossAmount \o serverKey
        hash   == Sha512(string)
    IN  hash = hash

verifyWebhookSignature(orderId, statusCode, grossAmount, signatureKey) ==
    LET string == orderId \o statusCode \o grossAmount \o serverKey
        hash   == Sha512(string)
    IN  hash = signatureKey

ToUpperCase(s) ==
    CASE s = "bank_transfer" -> "BANK_TRANSFER"
      [] s = "qris"          -> "QRIS"
      [] OTHER               -> s

\* an unrecognised gateway status taken as a failure
finalStatusMutUnknownFails(transaction_status, fraud_status) ==
    IF transaction_status = "capture"
    THEN IF fraud_status = "accept" THEN [status |-> "SUCCESS", shouldActivate |-> TRUE]
         ELSE IF fraud_status = "challenge" THEN [status |-> "PENDING", shouldActivate |-> FALSE]
         ELSE [status |-> "FAILED", shouldActivate |-> FALSE]
    ELSE IF transaction_status = "settlement"
    THEN [status |-> "SUCCESS", shouldActivate |-> TRUE]
    ELSE IF transaction_status = "cancel" \/ transaction_status = "deny"
            \/ transaction_status = "expire"
    THEN [status |-> "FAILED", shouldActivate |-> FALSE]
    ELSE IF transaction_status = "pending"
    THEN [status |-> "PENDING", shouldActivate |-> FALSE]
    ELSE [status |-> "FAILED", shouldActivate |-> FALSE]

\* capture with a fraud status other than accept taken as still pending
finalStatusMutSwallowDeny(transaction_status, fraud_status) ==
    IF transaction_status = "capture"
    THEN IF fraud_status = "accept" THEN [status |-> "SUCCESS", shouldActivate |-> TRUE]
         ELSE [status |-> "PENDING", shouldActivate |-> FALSE]
    ELSE IF transaction_status = "settlement"
    THEN [status |-> "SUCCESS", shouldActivate |-> TRUE]
    ELSE IF transaction_status \in {"cancel", "deny", "expire"}
    THEN [status |-> "FAILED", shouldActivate |-> FALSE]
    ELSE [status |-> "PENDING", shouldActivate |-> FALSE]

finalStatus(transaction_status, fraud_status) ==
    IF transaction_status = "capture"
    THEN IF fraud_status = "accept" THEN [status |-> "SUCCESS", shouldActivate |-> TRUE]
         ELSE IF fraud_status = "challenge" THEN [status |-> "PENDING", shouldActivate |-> FALSE]
         ELSE [status |-> "FAILED", shouldActivate |-> FALSE]
    ELSE IF transaction_status = "settlement"
    THEN [status |-> "SUCCESS", shouldActivate |-> TRUE]
    ELSE IF transaction_status = "cancel" \/ transaction_status = "deny"
            \/ transaction_status = "expire"
    THEN [status |-> "FAILED", shouldActivate |-> FALSE]
    ELSE IF transaction_status = "pending"
    THEN [status |-> "PENDING", shouldActivate |-> FALSE]
    ELSE [status |-> "PENDING", shouldActivate |-> FALSE]

\* processWebhookNotification: threw = "PaymentError" when the signature is
\* invalid, otherwise the processed data
processWebhookNotification(notification) ==
    LET isValid == verifyWebhookSignature(notification.order_id, notification.status_code,
                                          notification.gross_amount, notification.signature_key)
        final   == finalStatus(notification.transaction_status, notification.fraud_status)
    IN  IF ~isValid
        THEN [threw |-> "PaymentError", orderId |-> "", status |-> "", shouldActivate |-> FALSE,
              paymentType |-> "", transactionStatus |-> "", fraudStatus |-> ""]
        ELSE [threw |-> "", orderId |-> notification.order_id, status |-> final.status,
              shouldActivate |-> final.shouldActivate,
              paymentType |-> notification.payment_type,
              transactionStatus |-> notification.transaction_status,
              fraudStatus |-> notification.fraud_status]

\* WebhookService.verifyWebhookAuthenticity
verifyWebhookAuthenticity(notification) ==
    IF notification.order_id = "" \/ notification.status_code = ""
       \/ notification.gross_amount = "" \/ notification.signature_key = ""
    THEN FALSE
    ELSE verifyWebhookSignature(notification.order_id, notification.status_code,
                                notification.gross_amount, notification.signature_key)

(***************************************************************************)
(* Notifications the webhook endpoint may receive                          *)
(***************************************************************************)
GatewayStatuses == {"capture", "settlement", "pending", "deny", "cancel", "expire", "refund"}
FraudStatuses   == {"accept", "challenge", "deny", ""}
StatusCode  == "200"
GrossAmount == "500000.00"

SignatureFor(orderId, key) == Sha512(orderId \o StatusCode \o GrossAmount \o key)

\* missing, signed with the server key, signed with another key; for this
\* order or copied from another order's notification
SignatureKeys == {""} \cup {SignatureFor(o, k) : o \in OrderIds, k \in {serverKey, forgedKey}}

Notification(o, ts, fs, sig) ==
    [transaction_status |-> ts, fraud_status |-> fs, order_id |-> o,
     status_code |-> StatusCode, gross_amount |-> GrossAmount, signature_key |-> sig,
     payment_type |-> "bank_transfer"]

Notifications ==
    {Notification(o, ts, fs, sig) :
        o \in OrderIds, ts \in GatewayStatuses, fs \in FraudStatuses, sig \in SignatureKeys}

\* the deliveries of the lifecycle specification: for the registered orders a
\* validly signed notification per internal status, for an order never
\* created a valid settlement, and badly signed settlements
Delivered ==
    {Notification(generateOrderId(i), k[1], k[2], SignatureFor(generateOrderId(i), serverKey)) :
        i \in ArchitectIds,
        k \in {<<"settlement", "">>, <<"capture", "challenge">>, <<"expire", "">>}}
    \cup {Notification(generateOrderId(0), "settlement", "",
                       SignatureFor(generateOrderId(0), serverKey))}
    \cup {Notification(generateOrderId(1), "settlement", "", sig) :
            sig \in {"", SignatureFor(generateOrderId(1), forgedKey)}}

\* the deliveries of the sequential specification: a validly signed
\* notification per row of the mapping table as well
DeliveredSeq ==
    Delivered
    \cup {Notification(generateOrderId(i), k[1], k[2], SignatureFor(generateOrderId(i), serverKey)) :
            i \in ArchitectIds,
            k \in {<<"capture", "accept">>, <<"capture", "deny">>, <<"pending", "">>,
                   <<"refund", "">>}}
    \cup {Notification(generateOrderId(1), "settlement", "",
                       SignatureFor(generateOrderId(0), serverKey))}

(***************************************************************************)
(* State                                                                   *)
(***************************************************************************)
VARIABLES
    transactions,   \* Transaction table: id -> row
    architects,     \* Architect table: id -> status (UNPAID | ACTIVE | BANNED)
    now,            \* the clock read by new Date() / Date.now()
    registration,   \* ArchitectRegistrationService.register calls
    webhook,        \* WebhookController.handleMidtransWebhook requests
    sweeper,        \* WebhookService.handleExpiredTransactions runs
    admin,          \* AdminTransactionService.updateStatus request
    emails,         \* calls of emailService.send*Email, per architect
    activations,    \* calls of activateAccount by the webhook, per architect
    served,         \* webhook requests, sweeps and payment-info requests started so far
    processed,      \* input and output of a bare processWebhookNotification call
    payment,        \* ArchitectRegistrationService.getPaymentInfo request
    users,          \* User table: id -> row
    userRegister,   \* UserAuthService.register request
    admins,         \* Admin table: id -> row
    changePassword  \* AdminAuthService.changePassword request

vars == <<transactions, architects, now, registration, webhook, sweeper, admin, emails,
          activations, served, processed, payment, users, userRegister, admins, changePassword>>

TransactionStatuses == {"PENDING", "SUCCESS", "FAILED", "EXPIRED"}
ArchitectStatuses   == {"UNPAID", "ACTIVE", "BANNED"}
Terminal            == {"SUCCESS", "FAILED", "EXPIRED"}

(***************************************************************************)
(* TransactionRepository                                                   *)
(***************************************************************************)
\* where: { orderId }: the row with that unique orderId
WhereOrderId(txs, orderId) == {i \in DOMAIN txs : txs[i].orderId = orderId}

\* a lookup that ignores the order id
findByOrderIdMutAny(txs, orderId) == {txs[i] : i \in DOMAIN txs}

findByOrderId(txs, orderId) == {txs[i] : i \in WhereOrderId(txs, orderId)}

findByPaymentToken(txs, paymentToken) ==
    {txs[i] : i \in {j \in DOMAIN txs : txs[j].paymentToken = paymentToken}}

\* the comparison with the clock turned round
findExpiredMutNotDue(txs, t) ==
    {txs[i] : i \in {j \in DOMAIN txs : txs[j].status = "PENDING" /\ txs[j].expiredAt > t}}

\* every row past its expiry, whatever its status
findExpiredMutNoStatus(txs, t) ==
    {txs[i] : i \in {j \in DOMAIN txs : txs[j].expiredAt < t}}

findExpired(txs, t) ==
    {txs[i] : i \in {j \in DOMAIN txs : txs[j].status = "PENDING" /\ txs[j].expiredAt < t}}

updateStatus(txs, id, status, t) ==
    [txs EXCEPT ![id] = IF status = "SUCCESS"
                        THEN [@ EXCEPT !.status = status, !.paidAt = Some(t)]
                        ELSE [@ EXCEPT !.status = status]]

updateWithMidtransResponse(txs, orderId, midtransResponse) ==
    [i \in DOMAIN txs |->
        IF i \in WhereOrderId(txs, orderId)
        THEN [txs[i] EXCEPT !.midtransResponse = Some(midtransResponse)]
        ELSE txs[i]]

\* the status written without its payment columns
markAsSuccessMutStatusOnly(txs, orderId, paymentMethod, midtransResponse, t) ==
    [i \in DOMAIN txs |->
        IF i \in WhereOrderId(txs, orderId)
        THEN [txs[i] EXCEPT !.status = "SUCCESS",
                            !.midtransResponse = Some(midtransResponse)]
        ELSE txs[i]]

markAsSuccess(txs, orderId, paymentMethod, midtransResponse, t) ==
    [i \in DOMAIN txs |->
        IF i \in WhereOrderId(txs, orderId)
        THEN [txs[i] EXCEPT !.status = "SUCCESS",
                            !.paymentMethod = Some(IF paymentMethod = "" THEN "OTHER"
                                                   ELSE paymentMethod),
                            !.paidAt = Some(t),
                            !.midtransResponse = Some(midtransResponse)]
        ELSE txs[i]]

markAsFailed(txs, orderId, midtransResponse) ==
    [i \in DOMAIN txs |->
        IF i \in WhereOrderId(txs, orderId)
        THEN [txs[i] EXCEPT !.status = "FAILED",
                            !.midtransResponse = Some(midtransResponse)]
        ELSE txs[i]]

\* the bulk update without its status condition
markExpiredTransactionsMutNoStatus(txs, t) ==
    LET matched == {i \in DOMAIN txs : txs[i].expiredAt < t}
    IN  [rows  |-> [i \in DOMAIN txs |-> IF i \in matched
                                         THEN [txs[i] EXCEPT !.status = "EXPIRED"]
                                         ELSE txs[i]],
         count |-> Cardinality(matched)]

\* prisma updateMany: one set-based statement; count = rows matched
markExpiredTransactions(txs, t) ==
    LET matched == {i \in DOMAIN txs : txs[i].status = "PENDING" /\ txs[i].expiredAt < t}
    IN  [rows  |-> [i \in DOMAIN txs |-> IF i \in matched
                                         THEN [txs[i] EXCEPT !.status = "EXPIRED"]
                                         ELSE txs[i]],
         count |-> Cardinality(matched)]

createTransaction(txs, id, architectId, orderId, paymentToken, snapToken, amount, expiredAt) ==
    txs @@ (id :> [id |-> id, architectId |-> architectId, orderId |-> orderId,
                   paymentToken |-> paymentToken, snapToken |-> snapToken,
                   amount |-> amount, status |-> "PENDING", paymentMethod |-> Null,
                   paidAt |-> Null, expiredAt |-> expiredAt, midtransResponse |-> Null])

ToLowerCase(s) ==
    CASE s = "PENDING" -> "pending"
      [] s = "SUCCESS" -> "success"
      [] s = "FAILED"  -> "failed"
      [] s = "EXPIRED" -> "expired"
      [] OTHER         -> s

\* the expiry looked at before the status
validateForPaymentMutExpiryFirst(txs, paymentToken, t) ==
    LET found == findByPaymentToken(txs, paymentToken)
    IN  IF found = {}
        THEN [valid |-> FALSE, message |-> "Payment link not found", transaction |-> Null]
        ELSE LET transaction == CHOOSE r \in found : TRUE
             IN  IF t > transaction.expiredAt
                 THEN [valid |-> FALSE, message |-> "Payment link has expired",
                       transaction |-> found]
                 ELSE IF transaction.status # "PENDING"
                 THEN [valid |-> FALSE,
                       message |-> "Payment already " \o ToLowerCase(transaction.status),
                       transaction |-> found]
                 ELSE [valid |-> TRUE, message |-> "Valid payment link", transaction |-> found]

validateForPayment(txs, paymentToken, t) ==
    LET found == findByPaymentToken(txs, paymentToken)
    IN  IF found = {}
        THEN [valid |-> FALSE, message |-> "Payment link not found", transaction |-> Null]
        ELSE LET transaction == CHOOSE r \in found : TRUE
             IN  IF transaction.status # "PENDING"
                 THEN [valid |-> FALSE,
                       message |-> "Payment already " \o ToLowerCase(transaction.status),
                       transaction |-> found]
                 ELSE IF t > transaction.expiredAt
                 THEN [valid |-> FALSE, message |-> "Payment link has expired",
                       transaction |-> found]
                 ELSE [valid |-> TRUE, message |-> "Valid payment link", transaction |-> found]

\* a backfill that also gives the payment link a new expiry
updateSnapTokenMutExtendsExpiry(txs, id, snapToken) ==
    [txs EXCEPT ![id].snapToken = snapToken, ![id].expiredAt = @ + PAYMENT_EXPIRY_HOURS]

\* BaseRepository.update(id, { snapToken })
updateSnapToken(txs, id, snapToken) == [txs EXCEPT ![id].snapToken = snapToken]

(***************************************************************************)
(* ArchitectRepository                                                     *)
(***************************************************************************)
createWithRelations(archs, id) == archs @@ (id :> "UNPAID")

architectUpdateStatus(archs, id, status) == [archs EXCEPT ![id] = status]

\* an activation that flips the status
activateAccountMutToggle(archs, id) ==
    [archs EXCEPT ![id] = IF @ = "ACTIVE" THEN "UNPAID" ELSE "ACTIVE"]

activateAccount(archs, id) == [archs EXCEPT ![id] = "ACTIVE"]

(***************************************************************************)
(* PasswordHasher and JWTHelper                                            *)
(***************************************************************************)
\* a one-way hash: distinct passwords have distinct hashes
hash(password) == "$2b$" \o password

compare(password, hashedPassword) == hash(password) = hashedPassword

\* the passwords a request may carry; the last two meet the requirements
Passwords == {"", "weak", "Password123!", "NewPassword123!"}

validatePasswordStrength(password) ==
    [isValid |-> password \in {"Password123!", "NewPassword123!"}]

generateAccessToken(user) == "access." \o Digit[user.id] \o "." \o user.email

generateRefreshToken(user) == "refresh." \o Digit[user.id]

(***************************************************************************)
(* UserRepository, AdminRepository                                         *)
(***************************************************************************)
isEmailExists(table, email) == \E id \in DOMAIN table : table[id].email = email

isUsernameExists(table, username) == \E id \in DOMAIN table : table[id].username = username

\* BaseRepository.create: the row gets the next id
createUser(table, userData) ==
    LET id == Cardinality(DOMAIN table) + 1
    IN  table @@ (id :> [id |-> id, email |-> userData.email, username |-> userData.username,
                         password |-> userData.password, fullName |-> userData.fullName,
                         emailVerified |-> FALSE])

\* BaseRepository.findById: the record, or null
findById(table, id) == IF id \in DOMAIN table THEN Some(table[id]) ELSE Null

\* adminRepository.update(adminId, { password })
updatePassword(table, id, hashedPassword) == [table EXCEPT ![id].password = hashedPassword]

(***************************************************************************)
(* Registration data a user may send                                       *)
(***************************************************************************)
Emails    == {"", "alice@mail.com", "bob@mail.com"}
Usernames == {"", "ab", "al!ce", "alice", "bob"}
FullNames == {"", "Test User"}

\* username.length
Length(username) ==
    CASE username = ""   -> 0
      [] username = "ab" -> 2
      [] username = "bob" -> 3
      [] OTHER -> 5

\* /^[a-zA-Z0-9_]+$/.test(username)
MatchesUsernamePattern(username) == username \in {"ab", "alice", "bob"}

\* UserAuthService.validateRegistrationData: the fields in error
validateRegistrationData(data) ==
    (IF data.email = "" THEN {"email"} ELSE {})
    \cup (IF data.username = "" THEN {"username"}
          ELSE IF Length(data.username) < 3 THEN {"username"}
          ELSE IF ~MatchesUsernamePattern(data.username) THEN {"username"}
          ELSE {})
    \cup (IF data.password = "" THEN {"password"}
          ELSE IF ~validatePasswordStrength(data.password).isValid THEN {"password"}
          ELSE {})
    \cup (IF data.fullName = "" THEN {"fullName"} ELSE {})

RegistrationData ==
    [email : Emails, password : {"", "weak", "Password123!"}, username : Usernames,
     fullName : FullNames]

\* the seeded admin
SeededAdmins == (1 :> [email |-> "admin@mail.com", id |-> 1, password |-> hash("Password123!")])

(***************************************************************************)
(* Initial state: empty tables, no request in flight                       *)
(***************************************************************************)
IdleWebhook ==
    [pc |-> "idle", notification |-> Null, message |-> "", transaction |-> Null,
     response |-> 0, txWrites |-> 0, architectWrites |-> 0, emailCalls |-> 0,
     emailFailed |-> FALSE, accountBefore |-> "", error |-> ""]

IdleSweeper == [pc |-> "idle", count |-> 0, expiredTransactions |-> {}, emailFailures |-> {}]

IdleAdmin == [pc |-> "idle", s |-> "", id |-> 0, tx |-> Null, ops |-> 0]

IdlePayment ==
    [pc |-> "idle", paymentToken |-> "", id |-> 0, snapToken |-> Null, valid |-> FALSE,
     message |-> "", error |-> "", gatewayCalls |-> 0]

NoData == [email |-> "", password |-> "", username |-> "", fullName |-> ""]

IdleUserRegister ==
    [message |-> "", hashedPassword |-> "", data |-> NoData, pc |-> "idle", error |-> "",
     ops |-> 0, tokens |-> Null]

IdleChangePassword ==
    [admin |-> Null, id |-> 0, pc |-> "idle", error |-> "", ops |-> 0, oldPassword |-> "",
     newPassword |-> ""]

NoEmails == [a \in ArchitectIds |-> 0]

InitTables ==
    /\ transactions = <<>>
    /\ architects = <<>>
    /\ now = 0
    /\ registration = [i \in ArchitectIds |-> [pc |-> "idle", expiredAt |-> 0]]
    /\ webhook = [p \in WebhookIds |-> IdleWebhook]
    /\ sweeper = [s \in SweeperIds |-> IdleSweeper]
    /\ admin = IdleAdmin
    /\ emails = [welcome |-> NoEmails, paymentFailed |-> NoEmails, paymentExpired |-> NoEmails]
    /\ activations = [a \in ArchitectIds |-> 0]
    /\ served = [webhook |-> 0, sweeper |-> 0, payment |-> 0]
    /\ payment = IdlePayment
    /\ users = <<>>
    /\ userRegister = IdleUserRegister
    /\ admins = SeededAdmins
    /\ changePassword = IdleChangePassword

Init ==
    /\ InitTables
    /\ processed = [notification |-> Null, result |-> Null]

(***************************************************************************)
(* Clock                                                                   *)
(***************************************************************************)
Tick ==
    /\ now < MaxTime
    /\ now' = now + 1
    /\ UNCHANGED <<users, userRegister, admins, changePassword, transactions, architects, registration, webhook, sweeper, admin, emails,
                   activations, served, processed, payment>>

(***************************************************************************)
(* ArchitectRegistrationService.register                                   *)
(***************************************************************************)
\* steps 2-8: the e-mail is new, the architect row is inserted UNPAID, then
\* orderId, paymentToken and expiredAt are generated
RegisterCreateArchitect(i) ==
    /\ registration[i].pc = "idle"
    /\ \A j \in ArchitectIds : j < i => registration[j].pc # "idle"
    /\ architects' = createWithRelations(architects, i)
    /\ registration' = [registration EXCEPT ![i] = [pc |-> "transaction",
                                                    expiredAt |-> getPaymentExpiryDate(now)]]
    /\ UNCHANGED <<users, userRegister, admins, changePassword, transactions, now, webhook, sweeper, admin, emails, activations, served, processed, payment>>

\* a registration that gives up when the gateway gave no Snap token
RegisterCreateTransactionMutGatewayRequired(i, snapToken) ==
    /\ registration[i].pc = "transaction"
    /\ transactions' = IF snapToken = Null THEN transactions
                       ELSE createTransaction(transactions, i, i, generateOrderId(i),
                                              generatePaymentToken(i), snapToken,
                                              ARCHITECT_REGISTRATION_FEE, registration[i].expiredAt)
    /\ registration' = [registration EXCEPT ![i].pc = IF snapToken = Null THEN "failed" ELSE "done"]
    /\ UNCHANGED <<users, userRegister, admins, changePassword, architects, now, webhook, sweeper, admin, emails, activations, served, processed, payment>>

\* steps 9-12: the Snap token is obtained or not, the transaction row is
\* inserted PENDING
RegisterCreateTransaction(i, snapToken) ==
    /\ registration[i].pc = "transaction"
    /\ transactions' = createTransaction(transactions, i, i, generateOrderId(i),
                                         generatePaymentToken(i), snapToken,
                                         ARCHITECT_REGISTRATION_FEE, registration[i].expiredAt)
    /\ registration' = [registration EXCEPT ![i].pc = "done"]
    /\ UNCHANGED <<users, userRegister, admins, changePassword, architects, now, webhook, sweeper, admin, emails, activations, served, processed, payment>>

\* step 10 when the insert fails: createTransaction throws DatabaseError and
\* register rethrows it; the architect row of step 7 stays
RegisterCreateTransactionThrows(i) ==
    /\ registration[i].pc = "transaction"
    /\ registration' = [registration EXCEPT ![i].pc = "failed"]
    /\ UNCHANGED <<users, userRegister, admins, changePassword, transactions, architects, now,
                   webhook, sweeper, admin, emails, activations, served, processed, payment>>

(***************************************************************************)
(* WebhookController.handleMidtransWebhook / WebhookService                *)
(***************************************************************************)
Data(p) == processWebhookNotification(CHOOSE n \in webhook[p].notification : TRUE)
Raw(p)  == CHOOSE n \in webhook[p].notification : TRUE
Snapshot(p) == CHOOSE t \in webhook[p].transaction : TRUE

\* the fields of the looked-up row that the handler reads afterwards
Row(transaction) ==
    [id |-> transaction.id, architectId |-> transaction.architectId,
     status |-> transaction.status]

Respond(w, code, msg) == [w EXCEPT !.pc = "done", !.response = code, !.message = msg]

\* Step 3 of processMidtransWebhook: the idempotency check
alreadyProcessedMutNever(transaction) == FALSE

alreadyProcessed(transaction) == transaction.status = "SUCCESS"

\* controller lines 14-27 and service steps 1-3: authenticity, signature,
\* lookup by order id, idempotency check
HandleMidtransWebhook(p, n) ==
    /\ webhook[p].pc = "idle"
    /\ \A q \in WebhookIds : q < p => webhook[q].pc # "idle"
    /\ served.webhook < MaxDeliveries
    /\ served' = [served EXCEPT !.webhook = @ + 1]
    /\ LET w     == [webhook[p] EXCEPT !.notification = Some(n)]
           data  == processWebhookNotification(n)
           found == findByOrderId(transactions, data.orderId)
       IN  webhook' = [webhook EXCEPT ![p] =
             IF ~verifyWebhookAuthenticity(n)
             THEN Respond(w, 400, "Invalid webhook signature")
             ELSE IF data.threw # ""
             THEN Respond([w EXCEPT !.error = data.threw],
                          200, "Webhook received but processing failed")
             ELSE IF found = {}
             THEN Respond([w EXCEPT !.error = "NotFoundError"],
                          200, "Webhook received but processing failed")
             ELSE LET transaction == CHOOSE t \in found : TRUE
                  IN  IF alreadyProcessed(transaction)
                      THEN Respond([w EXCEPT !.transaction = Some(Row(transaction)),
                                             !.accountBefore = architects[transaction.architectId]],
                                   200, "Transaction already processed")
                      ELSE [w EXCEPT !.pc = "update", !.transaction = Some(Row(transaction)),
                                     !.accountBefore = architects[transaction.architectId]]]
    /\ UNCHANGED <<users, userRegister, admins, changePassword, transactions, architects, now, registration, sweeper, admin, emails,
                   activations, processed, payment>>

\* Step 4: persist the raw notification
UpdateWithMidtransResponse(p) ==
    /\ webhook[p].pc = "update"
    /\ transactions' = updateWithMidtransResponse(transactions, Data(p).orderId, Raw(p))
    /\ webhook' = [webhook EXCEPT ![p].pc = "handle", ![p].txWrites = @ + 1]
    /\ UNCHANGED <<users, userRegister, admins, changePassword, architects, now, registration, sweeper, admin, emails, activations, served, processed, payment>>

\* handleSuccessfulPayment step 1
HandleSuccessfulPayment_Mark(p) ==
    /\ webhook[p].pc = "handle"
    /\ Data(p).shouldActivate /\ Data(p).status = "SUCCESS"
    /\ transactions' = markAsSuccess(transactions, Data(p).orderId,
                                     ToUpperCase(Data(p).paymentType), Raw(p), now)
    /\ webhook' = [webhook EXCEPT ![p].pc = "activate", ![p].txWrites = @ + 1]
    /\ UNCHANGED <<users, userRegister, admins, changePassword, architects, now, registration, sweeper, admin, emails, activations, served, processed, payment>>

\* handleSuccessfulPayment step 2
HandleSuccessfulPayment_Activate(p) ==
    /\ webhook[p].pc = "activate"
    /\ architects' = activateAccount(architects, Snapshot(p).architectId)
    /\ activations' = [activations EXCEPT ![Snapshot(p).architectId] = @ + 1]
    /\ webhook' = [webhook EXCEPT ![p].pc = "welcome", ![p].architectWrites = @ + 1]
    /\ UNCHANGED <<users, userRegister, admins, changePassword, transactions, now, registration, sweeper, admin, emails, served, processed, payment>>

\* handleSuccessfulPayment step 2 when the update of the architect fails:
\* BaseRepository.update throws, handleSuccessfulPayment and
\* processMidtransWebhook rethrow, the controller answers 200
HandleSuccessfulPayment_ActivateThrows(p) ==
    /\ webhook[p].pc = "activate"
    /\ webhook' = [webhook EXCEPT ![p] =
          Respond([@ EXCEPT !.error = "DatabaseError"],
                  200, "Webhook received but processing failed")]
    /\ UNCHANGED <<users, userRegister, admins, changePassword, transactions, architects, now,
                   registration, sweeper, admin, emails, activations, served, processed, payment>>

\* the failure of the welcome e-mail thrown on to the controller
HandleSuccessfulPayment_EmailMutRethrow(p, sent) ==
    /\ webhook[p].pc = "welcome"
    /\ emails' = [emails EXCEPT !.welcome[Snapshot(p).architectId] = @ + 1]
    /\ webhook' = [webhook EXCEPT ![p] =
          IF sent
          THEN Respond([@ EXCEPT !.emailCalls = @ + 1, !.emailFailed = ~sent],
                       200, "Webhook processed successfully")
          ELSE Respond([@ EXCEPT !.emailCalls = @ + 1, !.emailFailed = ~sent],
                       200, "Webhook received but processing failed")]
    /\ UNCHANGED <<users, userRegister, admins, changePassword, transactions, architects, now, registration, sweeper, admin, activations, served, processed, payment>>

\* handleSuccessfulPayment steps 3-4 and the return: the welcome e-mail is
\* attempted, its failure is swallowed
HandleSuccessfulPayment_Email(p, sent) ==
    /\ webhook[p].pc = "welcome"
    /\ emails' = [emails EXCEPT !.welcome[Snapshot(p).architectId] = @ + 1]
    /\ webhook' = [webhook EXCEPT ![p] =
          Respond([@ EXCEPT !.emailCalls = @ + 1, !.emailFailed = ~sent],
                  200, "Webhook processed successfully")]
    /\ UNCHANGED <<users, userRegister, admins, changePassword, transactions, architects, now, registration, sweeper, admin, activations, served, processed, payment>>

\* handleFailedPayment step 1
HandleFailedPayment_Mark(p) ==
    /\ webhook[p].pc = "handle"
    /\ ~(Data(p).shouldActivate /\ Data(p).status = "SUCCESS")
    /\ Data(p).status = "FAILED"
    /\ transactions' = markAsFailed(transactions, Data(p).orderId, Raw(p))
    /\ webhook' = [webhook EXCEPT ![p].pc = "failedEmail", ![p].txWrites = @ + 1]
    /\ UNCHANGED <<users, userRegister, admins, changePassword, architects, now, registration, sweeper, admin, emails, activations, served, processed, payment>>

\* handleFailedPayment steps 2-3 and the return
HandleFailedPayment_Email(p, sent) ==
    /\ webhook[p].pc = "failedEmail"
    /\ emails' = [emails EXCEPT !.paymentFailed[Snapshot(p).architectId] = @ + 1]
    /\ webhook' = [webhook EXCEPT ![p] =
          Respond([@ EXCEPT !.emailCalls = @ + 1, !.emailFailed = ~sent],
                  200, "Webhook processed successfully")]
    /\ UNCHANGED <<users, userRegister, admins, changePassword, transactions, architects, now, registration, sweeper, admin, activations, served, processed, payment>>

\* handlePendingPayment and the return
HandlePendingPayment(p) ==
    /\ webhook[p].pc = "handle"
    /\ ~(Data(p).shouldActivate /\ Data(p).status = "SUCCESS")
    /\ Data(p).status # "FAILED"
    /\ Data(p).status = "PENDING"
    /\ transactions' = updateStatus(transactions, Snapshot(p).id, "PENDING", now)
    /\ webhook' = [webhook EXCEPT ![p] =
          Respond([@ EXCEPT !.txWrites = @ + 1], 200, "Webhook processed successfully")]
    /\ UNCHANGED <<users, userRegister, admins, changePassword, architects, now, registration, sweeper, admin, emails, activations, served, processed, payment>>

\* the response has been sent: the request is over
WebhookClose(p) ==
    /\ webhook[p].pc = "done"
    /\ webhook' = [webhook EXCEPT ![p] = IdleWebhook]
    /\ UNCHANGED <<users, userRegister, admins, changePassword, transactions, architects, now, registration, sweeper, admin, emails,
                   activations, served, processed, payment>>

(***************************************************************************)
(* WebhookService.handleExpiredTransactions (cron, check-expired endpoint) *)
(***************************************************************************)
HandleExpiredTransactions_Find(s) ==
    /\ sweeper[s].pc = "idle"
    /\ \A r \in SweeperIds : r < s => sweeper[r].pc # "idle"
    /\ served.sweeper < MaxSweeps
    /\ served' = [served EXCEPT !.sweeper = @ + 1]
    /\ LET expiredTransactions == findExpired(transactions, now)
       IN  sweeper' = [sweeper EXCEPT ![s] =
              IF expiredTransactions = {}
              THEN [@ EXCEPT !.pc = "done", !.count = 0]
              ELSE [@ EXCEPT !.pc = "mark", !.expiredTransactions = expiredTransactions]]
    /\ UNCHANGED <<users, userRegister, admins, changePassword, transactions, architects, now, registration, webhook, admin, emails,
                   activations, processed, payment>>

\* the hourly cron job: handleExpiredTransactions started by the scheduler,
\* hour after hour
CheckExpiredTransactions(s) ==
    /\ sweeper[s].pc = "idle"
    /\ \A r \in SweeperIds : r < s => sweeper[r].pc # "idle"
    /\ LET expiredTransactions == findExpired(transactions, now)
       IN  sweeper' = [sweeper EXCEPT ![s] =
              IF expiredTransactions = {}
              THEN [@ EXCEPT !.pc = "done", !.count = 0]
              ELSE [@ EXCEPT !.pc = "mark", !.expiredTransactions = expiredTransactions]]
    /\ UNCHANGED <<users, userRegister, admins, changePassword, transactions, architects, now,
                   registration, webhook, admin, emails, activations, served, processed, payment>>

HandleExpiredTransactions_Mark(s) ==
    /\ sweeper[s].pc = "mark"
    /\ LET result == markExpiredTransactions(transactions, now)
       IN  /\ transactions' = result.rows
           /\ sweeper' = [sweeper EXCEPT ![s].pc = "email", ![s].count = result.count]
    /\ UNCHANGED <<users, userRegister, admins, changePassword, architects, now, registration, webhook, admin, emails, activations, served, processed, payment>>

\* a loop that the first failed send ends
HandleExpiredTransactions_EmailMutAbort(s, failures) ==
    /\ sweeper[s].pc = "email"
    /\ LET ids == {t.architectId : t \in sweeper[s].expiredTransactions}
           attempted == {a \in ids : \A f \in failures : a <= f}
       IN  /\ failures \subseteq ids
           /\ emails' = [emails EXCEPT !.paymentExpired =
                            [a \in ArchitectIds |-> IF a \in attempted THEN @[a] + 1 ELSE @[a]]]
    /\ sweeper' = [sweeper EXCEPT ![s].pc = "done", ![s].emailFailures = failures]
    /\ UNCHANGED <<users, userRegister, admins, changePassword, transactions, architects, now, registration, webhook, admin, activations, served, processed, payment>>

\* the for loop over the rows read before the update, each send in its own
\* try/catch
HandleExpiredTransactions_Email(s, failures) ==
    /\ sweeper[s].pc = "email"
    /\ LET ids == {t.architectId : t \in sweeper[s].expiredTransactions}
       IN  /\ failures \subseteq ids
           /\ emails' = [emails EXCEPT !.paymentExpired =
                            [a \in ArchitectIds |-> IF a \in ids THEN @[a] + 1 ELSE @[a]]]
    /\ sweeper' = [sweeper EXCEPT ![s].pc = "done", ![s].emailFailures = failures]
    /\ UNCHANGED <<users, userRegister, admins, changePassword, transactions, architects, now, registration, webhook, admin, activations, served, processed, payment>>

\* the sweep has returned its result
SweeperClose(s) ==
    /\ sweeper[s].pc = "done"
    /\ sweeper' = [sweeper EXCEPT ![s] = IdleSweeper]
    /\ UNCHANGED <<users, userRegister, admins, changePassword, transactions, architects, now, registration, webhook, admin, emails,
                   activations, served, processed, payment>>

(***************************************************************************)
(* Admin overrides                                                         *)
(***************************************************************************)
\* AdminTransactionService.updateStatus: findUnique
AdminUpdateStatus_Find(id, s) ==
    /\ admin.pc = "idle"
    /\ admin.ops < MaxAdminOps
    /\ id \in DOMAIN transactions
    /\ admin' = [admin EXCEPT !.pc = "update", !.id = id, !.s = s,
                              !.tx = Some([architectId |-> transactions[id].architectId,
                                              paidAt |-> transactions[id].paidAt])]
    /\ UNCHANGED <<users, userRegister, admins, changePassword, transactions, architects, now, registration, webhook, sweeper, emails,
                   activations, served, processed, payment>>

\* AdminTransactionService.updateStatus: update
AdminUpdateStatus_Update ==
    /\ admin.pc = "update"
    /\ LET tx == CHOOSE t \in admin.tx : TRUE
       IN  transactions' = [transactions EXCEPT ![admin.id] =
              [@ EXCEPT !.status = admin.s,
                        !.paidAt = IF admin.s = "SUCCESS" THEN Some(now) ELSE tx.paidAt]]
    /\ admin' = IF admin.s = "SUCCESS"
                THEN [admin EXCEPT !.pc = "activate"]
                ELSE [admin EXCEPT !.pc = "idle", !.ops = @ + 1]
    /\ UNCHANGED <<users, userRegister, admins, changePassword, architects, now, registration, webhook, sweeper, emails, activations, served, processed, payment>>

\* AdminTransactionService.updateStatus: transaksi SUCCESS => architect ACTIVE
AdminUpdateStatus_Activate ==
    /\ admin.pc = "activate"
    /\ LET tx == CHOOSE t \in admin.tx : TRUE
       IN  architects' = architectUpdateStatus(architects, tx.architectId, "ACTIVE")
    /\ admin' = [admin EXCEPT !.pc = "idle", !.ops = @ + 1]
    /\ UNCHANGED <<users, userRegister, admins, changePassword, transactions, now, registration, webhook, sweeper, emails, activations, served, processed, payment>>

\* AdminArchitectService.updateStatus
AdminArchitectUpdateStatus(id, status) ==
    /\ admin.pc = "idle"
    /\ admin.ops < MaxAdminOps
    /\ id \in DOMAIN architects
    /\ architects' = architectUpdateStatus(architects, id, status)
    /\ admin' = [admin EXCEPT !.ops = @ + 1]
    /\ UNCHANGED <<users, userRegister, admins, changePassword, transactions, now, registration, webhook, sweeper, emails, activations, served, processed, payment>>

(***************************************************************************)
(* ArchitectRegistrationService.getPaymentInfo                             *)
(***************************************************************************)
\* validateForPayment, BadRequestError when invalid; the stored Snap token is
\* returned when there is one (or the gateway is not configured)
GetPaymentInfo_Validate(paymentToken) ==
    /\ payment.pc = "idle"
    /\ served.payment < MaxPaymentInfos
    /\ served' = [served EXCEPT !.payment = @ + 1]
    /\ LET validation == validateForPayment(transactions, paymentToken, now)
           req == [payment EXCEPT !.paymentToken = paymentToken, !.valid = validation.valid,
                                  !.message = validation.message]
       IN  payment' =
             IF ~validation.valid
             THEN [req EXCEPT !.pc = "done", !.error = "BadRequestError"]
             ELSE LET transaction == CHOOSE t \in validation.transaction : TRUE
                  IN  IF transaction.snapToken = Null /\ isConfigured
                      THEN [req EXCEPT !.pc = "snap", !.id = transaction.id]
                      ELSE [req EXCEPT !.pc = "done", !.id = transaction.id,
                                       !.snapToken = transaction.snapToken]
    /\ UNCHANGED <<users, userRegister, admins, changePassword, transactions, architects, now, registration, webhook, sweeper, admin, emails,
                   activations, processed>>

\* createSnapTransaction and the update of the row, both inside one
\* try/catch: snapResult is Null when the gateway call throws
GetPaymentInfo_CreateSnap(snapResult) ==
    /\ payment.pc = "snap"
    /\ transactions' = IF snapResult = Null THEN transactions
                       ELSE updateSnapToken(transactions, payment.id, snapResult)
    /\ payment' = [payment EXCEPT !.pc = "done", !.snapToken = snapResult,
                                  !.gatewayCalls = @ + 1]
    /\ UNCHANGED <<users, userRegister, admins, changePassword, architects, now, registration, webhook, sweeper, admin, emails,
                   activations, served, processed>>

\* the payment info (or the error) has been returned
PaymentClose ==
    /\ payment.pc = "done"
    /\ payment' = IdlePayment
    /\ UNCHANGED <<users, userRegister, admins, changePassword, transactions, architects, now, registration, webhook, sweeper, admin, emails,
                   activations, served, processed>>

(***************************************************************************)
(* UserAuthService.register                                                *)
(***************************************************************************)
Others == <<transactions, architects, now, registration, webhook, sweeper, admin, emails,
            activations, served, processed, payment>>

\* the request is over with an error thrown to the caller
Reject(r, error, message) == [r EXCEPT !.pc = "done", !.error = error, !.message = message]

\* a register that does not look the e-mail up
UserRegister_ValidateMutNoEmailCheck(registrationData) ==
    /\ userRegister.pc = "idle"
    /\ userRegister.ops < MaxUserRegistrations
    /\ LET r == [userRegister EXCEPT !.data = registrationData, !.ops = @ + 1]
       IN  userRegister' =
             IF validateRegistrationData(registrationData) # {}
             THEN Reject(r, "ValidationError", "Validation failed")
             ELSE [r EXCEPT !.pc = "username"]
    /\ UNCHANGED <<users, admins, changePassword>>
    /\ UNCHANGED Others

\* validateRegistrationData, then isEmailExists
UserRegister_Validate(registrationData) ==
    /\ userRegister.pc = "idle"
    /\ userRegister.ops < MaxUserRegistrations
    /\ LET r == [userRegister EXCEPT !.data = registrationData, !.ops = @ + 1]
       IN  userRegister' =
             IF validateRegistrationData(registrationData) # {}
             THEN Reject(r, "ValidationError", "Validation failed")
             ELSE IF isEmailExists(users, registrationData.email)
             THEN Reject(r, "ConflictError", "Email already registered")
             ELSE [r EXCEPT !.pc = "username"]
    /\ UNCHANGED <<users, admins, changePassword>>
    /\ UNCHANGED Others

\* isUsernameExists
UserRegister_CheckUsername ==
    /\ userRegister.pc = "username"
    /\ userRegister' =
          IF isUsernameExists(users, userRegister.data.username)
          THEN Reject(userRegister, "ConflictError", "Username already taken")
          ELSE [userRegister EXCEPT !.pc = "hash"]
    /\ UNCHANGED <<users, admins, changePassword>>
    /\ UNCHANGED Others

\* PasswordHasher.hash
UserRegister_Hash ==
    /\ userRegister.pc = "hash"
    /\ userRegister' = [userRegister EXCEPT !.pc = "create",
                                            !.hashedPassword = hash(userRegister.data.password)]
    /\ UNCHANGED <<users, admins, changePassword>>
    /\ UNCHANGED Others

\* userRepository.createUser, which looks the e-mail and the username up
\* again, then the two tokens and the return
UserRegister_CreateUser ==
    /\ userRegister.pc = "create"
    /\ LET userData == [userRegister.data EXCEPT !.password = userRegister.hashedPassword]
           created  == createUser(users, userData)
           user     == created[Cardinality(DOMAIN users) + 1]
       IN  IF isEmailExists(users, userData.email)
           THEN /\ userRegister' = Reject(userRegister, "ConflictError", "Email already registered")
                /\ users' = users
           ELSE IF isUsernameExists(users, userData.username)
           THEN /\ userRegister' = Reject(userRegister, "ConflictError", "Username already taken")
                /\ users' = users
           ELSE /\ users' = created
                /\ userRegister' =
                      [userRegister EXCEPT !.pc = "done", !.message = "Registration successful",
                            !.tokens = Some([accessToken |-> generateAccessToken(user),
                                             refreshToken |-> generateRefreshToken(user)])]
    /\ UNCHANGED <<admins, changePassword>>
    /\ UNCHANGED Others

\* the result (or the error) has been returned
UserRegisterClose ==
    /\ userRegister.pc = "done"
    /\ userRegister' = [IdleUserRegister EXCEPT !.ops = userRegister.ops]
    /\ UNCHANGED <<users, admins, changePassword>>
    /\ UNCHANGED Others

(***************************************************************************)
(* AdminAuthService.changePassword                                         *)
(***************************************************************************)
\* the input check, then adminRepository.findByIdOrFail
ChangePassword_Find(adminId, oldPassword, newPassword) ==
    /\ changePassword.pc = "idle"
    /\ changePassword.ops < MaxPasswordChanges
    /\ LET r     == [changePassword EXCEPT !.id = adminId, !.oldPassword = oldPassword,
                                           !.newPassword = newPassword, !.ops = @ + 1]
           found == findById(admins, adminId)
       IN  changePassword' =
             IF oldPassword = "" \/ newPassword = ""
             THEN [r EXCEPT !.pc = "done", !.error = "ValidationError"]
             ELSE IF found = Null
             THEN [r EXCEPT !.pc = "done", !.error = "NotFoundError"]
             ELSE [r EXCEPT !.pc = "verify", !.admin = found]
    /\ UNCHANGED <<users, userRegister, admins>>
    /\ UNCHANGED Others

\* a changePassword that does not compare the old password
ChangePassword_VerifyMutNoCompare ==
    /\ changePassword.pc = "verify"
    /\ changePassword' =
          IF ~validatePasswordStrength(changePassword.newPassword).isValid
          THEN [changePassword EXCEPT !.pc = "done", !.error = "ValidationError"]
          ELSE [changePassword EXCEPT !.pc = "update"]
    /\ UNCHANGED <<users, userRegister, admins>>
    /\ UNCHANGED Others

\* PasswordHasher.compare with the stored hash, then validatePasswordStrength
ChangePassword_Verify ==
    /\ changePassword.pc = "verify"
    /\ LET stored == CHOOSE a \in changePassword.admin : TRUE
       IN  changePassword' =
             IF ~compare(changePassword.oldPassword, stored.password)
             THEN [changePassword EXCEPT !.pc = "done", !.error = "BadRequestError"]
             ELSE IF ~validatePasswordStrength(changePassword.newPassword).isValid
             THEN [changePassword EXCEPT !.pc = "done", !.error = "ValidationError"]
             ELSE [changePassword EXCEPT !.pc = "update"]
    /\ UNCHANGED <<users, userRegister, admins>>
    /\ UNCHANGED Others

\* PasswordHasher.hash, adminRepository.update and the return
ChangePassword_Update ==
    /\ changePassword.pc = "update"
    /\ admins' = updatePassword(admins, changePassword.id, hash(changePassword.newPassword))
    /\ changePassword' = [changePassword EXCEPT !.pc = "done"]
    /\ UNCHANGED <<users, userRegister>>
    /\ UNCHANGED Others

\* the result (or the error) has been returned
ChangePasswordClose ==
    /\ changePassword.pc = "done"
    /\ changePassword' = [IdleChangePassword EXCEPT !.ops = changePassword.ops]
    /\ UNCHANGED <<users, userRegister, admins>>
    /\ UNCHANGED Others

(***************************************************************************)
(* Lifecycle specification: every request interleaves at its awaits        *)
(***************************************************************************)
Next ==
    \/ Tick
    \/ \E i \in ArchitectIds : RegisterCreateArchitect(i)
    \/ \E i \in ArchitectIds, snapToken \in {Some("snap-token")} :
          RegisterCreateTransaction(i, snapToken)
    \/ \E i \in ArchitectIds : RegisterCreateTransactionThrows(i)
    \/ \E p \in WebhookIds, n \in Delivered : HandleMidtransWebhook(p, n)
    \/ \E p \in WebhookIds : UpdateWithMidtransResponse(p)
    \/ \E p \in WebhookIds : HandleSuccessfulPayment_Mark(p)
    \/ \E p \in WebhookIds : HandleSuccessfulPayment_Activate(p)
    \/ \E p \in WebhookIds : HandleSuccessfulPayment_ActivateThrows(p)
    \/ \E p \in WebhookIds, sent \in BOOLEAN : HandleSuccessfulPayment_Email(p, sent)
    \/ \E p \in WebhookIds : HandleFailedPayment_Mark(p)
    \/ \E p \in WebhookIds, sent \in BOOLEAN : HandleFailedPayment_Email(p, sent)
    \/ \E p \in WebhookIds : HandlePendingPayment(p)
    \/ \E p \in WebhookIds : WebhookClose(p)
    \/ \E s \in SweeperIds : HandleExpiredTransactions_Find(s)
    \/ \E s \in SweeperIds : CheckExpiredTransactions(s)
    \/ \E s \in SweeperIds : HandleExpiredTransactions_Mark(s)
    \/ \E s \in SweeperIds, failures \in SUBSET ArchitectIds :
          HandleExpiredTransactions_Email(s, failures)
    \/ \E s \in SweeperIds : SweeperClose(s)
    \/ \E id \in ArchitectIds, s \in TransactionStatuses : AdminUpdateStatus_Find(id, s)
    \/ AdminUpdateStatus_Update
    \/ AdminUpdateStatus_Activate
    \/ \E id \in ArchitectIds, status \in ArchitectStatuses :
          AdminArchitectUpdateStatus(id, status)
    \/ \E paymentToken \in PaymentTokens : GetPaymentInfo_Validate(paymentToken)
    \/ \E snapResult \in {Null, Some("snap-token")} : GetPaymentInfo_CreateSnap(snapResult)
    \/ PaymentClose
    \/ \E registrationData \in RegistrationData : UserRegister_Validate(registrationData)
    \/ UserRegister_CheckUsername
    \/ UserRegister_Hash
    \/ UserRegister_CreateUser
    \/ UserRegisterClose
    \/ \E adminId \in {1, 2}, oldPassword \in Passwords, newPassword \in Passwords :
          ChangePassword_Find(adminId, oldPassword, newPassword)
    \/ ChangePassword_Verify
    \/ ChangePassword_Update
    \/ ChangePasswordClose

Spec == Init /\ [][Next]_vars

TypeOK ==
    /\ \A i \in DOMAIN transactions : transactions[i].status \in TransactionStatuses
    /\ \A i \in DOMAIN architects : architects[i] \in ArchitectStatuses
    /\ now \in 0..MaxTime

(***************************************************************************)
(* Sequential specification: one request at a time, each run to its end    *)
(***************************************************************************)
Quiet ==
    /\ \A i \in ArchitectIds : registration[i].pc \in {"idle", "done", "failed"}
    /\ \A p \in WebhookIds : webhook[p].pc = "idle"
    /\ \A s \in SweeperIds : sweeper[s].pc = "idle"
    /\ admin.pc = "idle"
    /\ payment.pc = "idle"

NextSeq ==
    \/ Quiet /\ Tick
    \/ Quiet /\ \E i \in ArchitectIds : RegisterCreateArchitect(i)
    \/ \E i \in ArchitectIds : RegisterCreateTransaction(i, Some("snap-token"))
    \/ Quiet /\ \E p \in WebhookIds, n \in DeliveredSeq : HandleMidtransWebhook(p, n)
    \/ \E p \in WebhookIds : UpdateWithMidtransResponse(p)
    \/ \E p \in WebhookIds : HandleSuccessfulPayment_Mark(p)
    \/ \E p \in WebhookIds : HandleSuccessfulPayment_Activate(p)
    \/ \E p \in WebhookIds, sent \in BOOLEAN : HandleSuccessfulPayment_Email(p, sent)
    \/ \E p \in WebhookIds : HandleFailedPayment_Mark(p)
    \/ \E p \in WebhookIds, sent \in BOOLEAN : HandleFailedPayment_Email(p, sent)
    \/ \E p \in WebhookIds : HandlePendingPayment(p)
    \/ \E p \in WebhookIds : WebhookClose(p)
    \/ Quiet /\ \E s \in SweeperIds : HandleExpiredTransactions_Find(s)
    \/ \E s \in SweeperIds : HandleExpiredTransactions_Mark(s)
    \/ \E s \in SweeperIds, failures \in SUBSET ArchitectIds :
          HandleExpiredTransactions_Email(s, failures)
    \/ \E s \in SweeperIds : SweeperClose(s)
    \/ Quiet /\ \E id \in ArchitectIds, s \in TransactionStatuses : AdminUpdateStatus_Find(id, s)
    \/ AdminUpdateStatus_Update
    \/ AdminUpdateStatus_Activate
    \/ Quiet /\ \E id \in ArchitectIds, status \in ArchitectStatuses :
          AdminArchitectUpdateStatus(id, status)

SpecSeq == Init /\ [][NextSeq]_vars

(***************************************************************************)
(* Registrations and webhook requests only, one request at a time          *)
(***************************************************************************)
NextWebhook ==
    \/ Quiet /\ Tick
    \/ Quiet /\ \E i \in ArchitectIds : RegisterCreateArchitect(i)
    \/ \E i \in ArchitectIds : RegisterCreateTransaction(i, Some("snap-token"))
    \/ Quiet /\ \E p \in WebhookIds, n \in DeliveredSeq : HandleMidtransWebhook(p, n)
    \/ \E p \in WebhookIds : UpdateWithMidtransResponse(p)
    \/ \E p \in WebhookIds : HandleSuccessfulPayment_Mark(p)
    \/ \E p \in WebhookIds : HandleSuccessfulPayment_Activate(p)
    \/ \E p \in WebhookIds, sent \in BOOLEAN : HandleSuccessfulPayment_Email(p, sent)
    \/ \E p \in WebhookIds : HandleFailedPayment_Mark(p)
    \/ \E p \in WebhookIds, sent \in BOOLEAN : HandleFailedPayment_Email(p, sent)
    \/ \E p \in WebhookIds : HandlePendingPayment(p)
    \/ \E p \in WebhookIds : WebhookClose(p)

SpecWebhook == Init /\ [][NextWebhook]_vars

(***************************************************************************)
(* Registrations, admin transaction overrides and payment-info requests,   *)
(* one request at a time                                                   *)
(***************************************************************************)
NextPay ==
    \/ Quiet /\ Tick
    \/ Quiet /\ \E i \in ArchitectIds : RegisterCreateArchitect(i)
    \/ \E i \in ArchitectIds, snapToken \in {Null, Some("snap-token")} :
          RegisterCreateTransaction(i, snapToken)
    \/ Quiet /\ \E id \in ArchitectIds, s \in TransactionStatuses : AdminUpdateStatus_Find(id, s)
    \/ AdminUpdateStatus_Update
    \/ AdminUpdateStatus_Activate
    \/ Quiet /\ \E paymentToken \in PaymentTokens : GetPaymentInfo_Validate(paymentToken)
    \/ \E snapResult \in {Null, Some("snap-token")} : GetPaymentInfo_CreateSnap(snapResult)
    \/ PaymentClose

SpecPay == Init /\ [][NextPay]_vars

(***************************************************************************)
(* Registrations, expiry sweeps and admin transaction overrides, one       *)
(* request at a time                                                       *)
(***************************************************************************)
NextSweep ==
    \/ Quiet /\ Tick
    \/ Quiet /\ \E i \in ArchitectIds : RegisterCreateArchitect(i)
    \/ \E i \in ArchitectIds : RegisterCreateTransaction(i, Some("snap-token"))
    \/ Quiet /\ \E s \in SweeperIds : HandleExpiredTransactions_Find(s)
    \/ \E s \in SweeperIds : HandleExpiredTransactions_Mark(s)
    \/ \E s \in SweeperIds, failures \in SUBSET ArchitectIds :
          HandleExpiredTransactions_Email(s, failures)
    \/ \E s \in SweeperIds : SweeperClose(s)
    \/ Quiet /\ \E id \in ArchitectIds, s \in TransactionStatuses : AdminUpdateStatus_Find(id, s)
    \/ AdminUpdateStatus_Update
    \/ AdminUpdateStatus_Activate

SpecSweep == Init /\ [][NextSweep]_vars

(***************************************************************************)
(* Expiry sweeps interleaved with each other: the hourly cron and the      *)
(* check-expired endpoint, or two instances of the server                  *)
(***************************************************************************)
NextSweepers ==
    \/ Tick
    \/ \E i \in ArchitectIds : RegisterCreateArchitect(i)
    \/ \E i \in ArchitectIds : RegisterCreateTransaction(i, Some("snap-token"))
    \/ \E s \in SweeperIds : HandleExpiredTransactions_Find(s)
    \/ \E s \in SweeperIds : HandleExpiredTransactions_Mark(s)
    \/ \E s \in SweeperIds, failures \in SUBSET ArchitectIds :
          HandleExpiredTransactions_Email(s, failures)
    \/ \E s \in SweeperIds : SweeperClose(s)

SpecSweepers == Init /\ [][NextSweepers]_vars

(***************************************************************************)
(* Bare calls of processWebhookNotification on every notification          *)
(***************************************************************************)
InitMap ==
    /\ InitTables
    /\ \E n \in Notifications : processed = [notification |-> Some(n), result |-> Null]

ProcessWebhookNotification ==
    /\ processed.notification # Null
    /\ processed.result = Null
    /\ processed' = [processed EXCEPT
          !.result = Some(processWebhookNotification(CHOOSE n \in processed.notification : TRUE))]
    /\ UNCHANGED <<users, userRegister, admins, changePassword, transactions, architects, now, registration, webhook, sweeper, admin, emails,
                   activations, served, payment>>

NextMap == ProcessWebhookNotification

SpecMap == InitMap /\ [][NextMap]_vars

(***************************************************************************)
(* Duplicate deliveries of one success notification, interleaved           *)
(***************************************************************************)
Settlement(i) ==
    Notification(generateOrderId(i), "settlement", "", SignatureFor(generateOrderId(i), serverKey))

NextDup ==
    \/ Tick
    \/ \E i \in ArchitectIds : RegisterCreateArchitect(i)
    \/ \E i \in ArchitectIds : RegisterCreateTransaction(i, Some("snap-token"))
    \/ \E p \in WebhookIds : HandleMidtransWebhook(p, Settlement(1))
    \/ \E p \in WebhookIds : UpdateWithMidtransResponse(p)
    \/ \E p \in WebhookIds : HandleSuccessfulPayment_Mark(p)
    \/ \E p \in WebhookIds : HandleSuccessfulPayment_Activate(p)
    \/ \E p \in WebhookIds, sent \in BOOLEAN : HandleSuccessfulPayment_Email(p, sent)
    \/ \E p \in WebhookIds : WebhookClose(p)

SpecDup == Init /\ [][NextDup]_vars

(***************************************************************************)
(* Settlement and expire webhooks for the first order racing with expiry   *)
(* sweeps, no admin                                                        *)
(***************************************************************************)
\* the gateway's notification that the payment window of order i has closed
Expire(i) ==
    Notification(generateOrderId(i), "expire", "", SignatureFor(generateOrderId(i), serverKey))

NextRace ==
    \/ Tick
    \/ \E i \in ArchitectIds : RegisterCreateArchitect(i)
    \/ \E i \in ArchitectIds : RegisterCreateTransaction(i, Some("snap-token"))
    \/ \E p \in WebhookIds, n \in {Settlement(1), Expire(1)} : HandleMidtransWebhook(p, n)
    \/ \E p \in WebhookIds : UpdateWithMidtransResponse(p)
    \/ \E p \in WebhookIds : HandleSuccessfulPayment_Mark(p)
    \/ \E p \in WebhookIds : HandleSuccessfulPayment_Activate(p)
    \/ \E p \in WebhookIds : HandleSuccessfulPayment_Email(p, TRUE)
    \/ \E p \in WebhookIds : HandleFailedPayment_Mark(p)
    \/ \E p \in WebhookIds : HandleFailedPayment_Email(p, TRUE)
    \/ \E p \in WebhookIds : WebhookClose(p)
    \/ \E s \in SweeperIds : HandleExpiredTransactions_Find(s)
    \/ \E s \in SweeperIds : HandleExpiredTransactions_Mark(s)
    \/ \E s \in SweeperIds : HandleExpiredTransactions_Email(s, {})
    \/ \E s \in SweeperIds : SweeperClose(s)

SpecRace == Init /\ [][NextRace]_vars

(***************************************************************************)
(* Every writer of the Transaction table, one request at a time: register, *)
(* the webhook in its three branches, the sweep, the admin override and    *)
(* the Snap-token backfill of getPaymentInfo                                *)
(***************************************************************************)
\* the gateway's notification that the payment of order i is awaited
Pending(i) ==
    Notification(generateOrderId(i), "pending", "", SignatureFor(generateOrderId(i), serverKey))

\* requests already received, of any kind
Requests == served.webhook + served.sweeper + served.payment + admin.ops

\* no request in flight and another one may come
Ready == Quiet /\ Requests < MaxRequests

NextFields ==
    \/ Quiet /\ Tick
    \/ Quiet /\ \E i \in ArchitectIds : RegisterCreateArchitect(i)
    \/ \E i \in ArchitectIds, snapToken \in {Null, Some("snap-token")} :
          RegisterCreateTransaction(i, snapToken)
    \/ Ready /\ \E p \in WebhookIds, n \in {Settlement(1), Expire(1), Pending(1)} :
                HandleMidtransWebhook(p, n)
    \/ \E p \in WebhookIds : UpdateWithMidtransResponse(p)
    \/ \E p \in WebhookIds : HandleSuccessfulPayment_Mark(p)
    \/ \E p \in WebhookIds : HandleSuccessfulPayment_Activate(p)
    \/ \E p \in WebhookIds : HandleSuccessfulPayment_Email(p, TRUE)
    \/ \E p \in WebhookIds : HandleFailedPayment_Mark(p)
    \/ \E p \in WebhookIds : HandleFailedPayment_Email(p, TRUE)
    \/ \E p \in WebhookIds : HandlePendingPayment(p)
    \/ \E p \in WebhookIds : WebhookClose(p)
    \/ Ready /\ \E s \in SweeperIds : HandleExpiredTransactions_Find(s)
    \/ \E s \in SweeperIds : HandleExpiredTransactions_Mark(s)
    \/ \E s \in SweeperIds : HandleExpiredTransactions_Email(s, {})
    \/ \E s \in SweeperIds : SweeperClose(s)
    \/ Ready /\ \E s \in TransactionStatuses : AdminUpdateStatus_Find(1, s)
    \/ AdminUpdateStatus_Update
    \/ AdminUpdateStatus_Activate
    \/ Ready /\ GetPaymentInfo_Validate(generatePaymentToken(1))
    \/ \E snapResult \in {Null, Some("snap-token")} : GetPaymentInfo_CreateSnap(snapResult)
    \/ PaymentClose

SpecFields == Init /\ [][NextFields]_vars

(***************************************************************************)
(* The hourly cron job, forever, next to registrations and webhooks for    *)
(* the first order, one request at a time.  The event loop runs every      *)
(* started handler to its end (weak fairness of the handlers' steps) and   *)
(* node-cron starts the job every hour, so it starts again and again       *)
(* between the other requests (strong fairness of its start)               *)
(***************************************************************************)
NextCron ==
    \/ Quiet /\ Tick
    \/ Quiet /\ \E i \in ArchitectIds : RegisterCreateArchitect(i)
    \/ \E i \in ArchitectIds : RegisterCreateTransaction(i, Some("snap-token"))
    \/ Quiet /\ \E p \in WebhookIds, n \in {Settlement(1), Pending(1)} :
                HandleMidtransWebhook(p, n)
    \/ \E p \in WebhookIds : UpdateWithMidtransResponse(p)
    \/ \E p \in WebhookIds : HandleSuccessfulPayment_Mark(p)
    \/ \E p \in WebhookIds : HandleSuccessfulPayment_Activate(p)
    \/ \E p \in WebhookIds : HandleSuccessfulPayment_Email(p, TRUE)
    \/ \E p \in WebhookIds : HandlePendingPayment(p)
    \/ \E p \in WebhookIds : WebhookClose(p)
    \/ Quiet /\ \E s \in SweeperIds : CheckExpiredTransactions(s)
    \/ \E s \in SweeperIds : HandleExpiredTransactions_Mark(s)
    \/ \E s \in SweeperIds : HandleExpiredTransactions_Email(s, {})
    \/ \E s \in SweeperIds : SweeperClose(s)

\* a handler that has started runs to its end
Running ==
    \/ \E i \in ArchitectIds : RegisterCreateTransaction(i, Some("snap-token"))
    \/ \E p \in WebhookIds : UpdateWithMidtransResponse(p)
    \/ \E p \in WebhookIds : HandleSuccessfulPayment_Mark(p)
    \/ \E p \in WebhookIds : HandleSuccessfulPayment_Activate(p)
    \/ \E p \in WebhookIds : HandleSuccessfulPayment_Email(p, TRUE)
    \/ \E p \in WebhookIds : HandlePendingPayment(p)
    \/ \E p \in WebhookIds : WebhookClose(p)
    \/ \E s \in SweeperIds : HandleExpiredTransactions_Mark(s)
    \/ \E s \in SweeperIds : HandleExpiredTransactions_Email(s, {})
    \/ \E s \in SweeperIds : SweeperClose(s)

CronFairness ==
    /\ WF_vars(Running)
    /\ SF_vars(Quiet /\ \E s \in SweeperIds : CheckExpiredTransactions(s))

SpecCron == Init /\ [][NextCron]_vars /\ CronFairness

(***************************************************************************)
(* Settlement webhooks, redelivered, one request at a time, where the      *)
(* update of the architect may fail                                        *)
(***************************************************************************)
NextActivation ==
    \/ Quiet /\ Tick
    \/ Quiet /\ \E i \in ArchitectIds : RegisterCreateArchitect(i)
    \/ \E i \in ArchitectIds : RegisterCreateTransaction(i, Some("snap-token"))
    \/ Quiet /\ \E p \in WebhookIds, i \in ArchitectIds : HandleMidtransWebhook(p, Settlement(i))
    \/ \E p \in WebhookIds : UpdateWithMidtransResponse(p)
    \/ \E p \in WebhookIds : HandleSuccessfulPayment_Mark(p)
    \/ \E p \in WebhookIds : HandleSuccessfulPayment_Activate(p)
    \/ \E p \in WebhookIds : HandleSuccessfulPayment_ActivateThrows(p)
    \/ \E p \in WebhookIds, sent \in BOOLEAN : HandleSuccessfulPayment_Email(p, sent)
    \/ \E p \in WebhookIds : WebhookClose(p)

SpecActivation == Init /\ [][NextActivation]_vars

(***************************************************************************)
(* Settlement and expire webhooks for the first order interleaved with     *)
(* expiry sweeps that run one after the other                              *)
(***************************************************************************)
NoSweep == \A s \in SweeperIds : sweeper[s].pc = "idle"

NextSweepRace ==
    \/ Tick
    \/ \E i \in ArchitectIds : RegisterCreateArchitect(i)
    \/ \E i \in ArchitectIds : RegisterCreateTransaction(i, Some("snap-token"))
    \/ \E p \in WebhookIds, n \in {Settlement(1), Expire(1)} : HandleMidtransWebhook(p, n)
    \/ \E p \in WebhookIds : UpdateWithMidtransResponse(p)
    \/ \E p \in WebhookIds : HandleSuccessfulPayment_Mark(p)
    \/ \E p \in WebhookIds : HandleSuccessfulPayment_Activate(p)
    \/ \E p \in WebhookIds : HandleSuccessfulPayment_Email(p, TRUE)
    \/ \E p \in WebhookIds : HandleFailedPayment_Mark(p)
    \/ \E p \in WebhookIds : HandleFailedPayment_Email(p, TRUE)
    \/ \E p \in WebhookIds : WebhookClose(p)
    \/ NoSweep /\ \E s \in SweeperIds : HandleExpiredTransactions_Find(s)
    \/ \E s \in SweeperIds : HandleExpiredTransactions_Mark(s)
    \/ \E s \in SweeperIds : HandleExpiredTransactions_Email(s, {})
    \/ \E s \in SweeperIds : SweeperClose(s)

SpecSweepRace == Init /\ [][NextSweepRace]_vars

(***************************************************************************)
(* Registrations whose transaction insert may fail, and payment-info       *)
(* requests, one request at a time                                         *)
(***************************************************************************)
NextRegister ==
    \/ Quiet /\ Tick
    \/ Quiet /\ \E i \in ArchitectIds : RegisterCreateArchitect(i)
    \/ \E i \in ArchitectIds, snapToken \in {Null, Some("snap-token")} :
          RegisterCreateTransaction(i, snapToken)
    \/ \E i \in ArchitectIds : RegisterCreateTransactionThrows(i)
    \/ Quiet /\ \E paymentToken \in PaymentTokens : GetPaymentInfo_Validate(paymentToken)
    \/ \E snapResult \in {Null, Some("snap-token")} : GetPaymentInfo_CreateSnap(snapResult)
    \/ PaymentClose

SpecRegister == Init /\ [][NextRegister]_vars

(***************************************************************************)
(* User registrations, one request at a time                               *)
(***************************************************************************)
NextUserAuth ==
    \/ \E registrationData \in RegistrationData : UserRegister_Validate(registrationData)
    \/ UserRegister_CheckUsername
    \/ UserRegister_Hash
    \/ UserRegister_CreateUser
    \/ UserRegisterClose

SpecUserAuth == Init /\ [][NextUserAuth]_vars

(***************************************************************************)
(* Admin change-password requests, one request at a time                   *)
(***************************************************************************)
NextAdminAuth ==
    \/ \E adminId \in {1, 2}, oldPassword \in Passwords, newPassword \in Passwords :
          ChangePassword_Find(adminId, oldPassword, newPassword)
    \/ ChangePassword_Verify
    \/ ChangePassword_Update
    \/ ChangePasswordClose

SpecAdminAuth == Init /\ [][NextAdminAuth]_vars

(***************************************************************************)
(* Properties                                                              *)
(***************************************************************************)
Rows == DOMAIN transactions

\* the step is a write of markAsSuccess, markAsFailed or markExpiredTransactions
StoreMarkStep ==
    \/ \E p \in WebhookIds : webhook[p].pc = "handle" /\ webhook'[p].pc \in {"activate", "failedEmail"}
    \/ \E s \in SweeperIds : sweeper[s].pc = "mark" /\ sweeper'[s].pc = "email"

\* C1: once a transaction is SUCCESS, FAILED or EXPIRED, no call of
\* markAsSuccess, markAsFailed or markExpiredTransactions changes its status
C1_TerminalAbsorption ==
    [][\A i \in Rows :
          (transactions[i].status \in Terminal /\ StoreMarkStep)
             => transactions'[i].status = transactions[i].status]_vars

\* C2: over webhooks, admin overrides and sweeps the only status changes are
\* PENDING -> SUCCESS, PENDING -> FAILED and PENDING -> EXPIRED
C2_MonotonicStatus ==
    [][\A i \in Rows :
          transactions'[i].status # transactions[i].status
             => (transactions[i].status = "PENDING" /\ transactions'[i].status \in Terminal)]_vars

\* C3: once paidAt is written, no later operation changes it
C3_PaidAtWrittenOnce ==
    [][\A i \in Rows :
          transactions[i].paidAt # Null => transactions'[i].paidAt = transactions[i].paidAt]_vars

\* C4: paidAt is non-null if and only if status is SUCCESS
C4_PaidAtIffSuccess ==
    \A i \in Rows : (transactions[i].paidAt # Null) <=> (transactions[i].status = "SUCCESS")

\* the notification's signature_key is SHA-512(order_id + status_code + gross_amount + serverKey)
C5_SignatureMatches(n) ==
    n.signature_key = Sha512(n.order_id \o n.status_code \o n.gross_amount \o serverKey)

\* C5: a notification whose signature is missing or wrong is rejected in the
\* step that receives it, and that step writes no transaction, changes no
\* account and sends no e-mail
C5_SignatureRejection ==
    [][\A p \in WebhookIds :
          (webhook[p].pc = "idle" /\ webhook'[p].pc # "idle"
             /\ \E n \in webhook'[p].notification : ~C5_SignatureMatches(n))
          => /\ webhook'[p].pc = "done"
             /\ webhook'[p].message \in {"Invalid webhook signature",
                                         "Webhook received but processing failed"}
             /\ webhook'[p].txWrites = 0 /\ webhook'[p].architectWrites = 0
             /\ webhook'[p].emailCalls = 0
             /\ UNCHANGED <<users, userRegister, admins, changePassword, transactions, architects, emails, activations>>]_vars

C5_Witness ==
    \E p \in WebhookIds :
        /\ webhook[p].pc = "done"
        /\ \E n \in webhook[p].notification :
              /\ ~C5_SignatureMatches(n)
              /\ \E i \in Rows : /\ transactions[i].orderId = n.order_id
                                 /\ transactions[i].status = "PENDING"
                                 /\ architects[transactions[i].architectId] = "UNPAID"

\* C6: a validly signed notification for a transaction that is SUCCESS gets
\* the already-processed result in the step that receives it, and that step
\* writes nothing and sends nothing
C6_IdempotencyShortCircuit ==
    [][\A p \in WebhookIds :
          (webhook[p].pc = "idle" /\ webhook'[p].pc # "idle"
             /\ \E n \in webhook'[p].notification :
                   /\ C5_SignatureMatches(n)
                   /\ \E i \in Rows : /\ transactions[i].orderId = n.order_id
                                      /\ transactions[i].status = "SUCCESS")
          => /\ webhook'[p].pc = "done"
             /\ webhook'[p].response = 200
             /\ webhook'[p].message = "Transaction already processed"
             /\ webhook'[p].txWrites = 0 /\ webhook'[p].architectWrites = 0
             /\ webhook'[p].emailCalls = 0
             /\ UNCHANGED <<users, userRegister, admins, changePassword, transactions, architects, emails, activations>>]_vars

C6_Witness ==
    \E p \in WebhookIds :
        /\ webhook[p].pc = "done"
        /\ webhook[p].message = "Transaction already processed"
        /\ \E n \in webhook[p].notification, i \in Rows :
              /\ transactions[i].orderId = n.order_id
              /\ transactions[i].status = "SUCCESS"
              /\ transactions[i].paidAt # Null
              /\ transactions[i].midtransResponse # Null

\* C7: however many times the same success notification is delivered, the
\* activation and the welcome e-mail happen once
C7_ExactlyOnceSideEffects ==
    \A a \in ArchitectIds : activations[a] <= 1 /\ emails.welcome[a] <= 1

\* the step is a webhook's terminal write (markAsSuccess, markAsFailed) / the
\* sweep's bulk update
WebhookStep ==
    \E p \in WebhookIds : webhook[p].pc = "handle" /\ webhook'[p].pc \in {"activate", "failedEmail"}
SweeperStep == \E s \in SweeperIds : sweeper[s].pc = "mark" /\ sweeper'[s].pc = "email"

\* C8: between a webhook and a sweep on the same transaction the first
\* terminal transition wins: a webhook's terminal write leaves EXPIRED alone,
\* the sweep's update leaves SUCCESS and FAILED alone
C8_FirstTerminalWins ==
    [][\A i \in Rows :
          /\ (transactions[i].status = "EXPIRED" /\ WebhookStep)
                => transactions'[i].status = "EXPIRED"
          /\ (transactions[i].status \in {"SUCCESS", "FAILED"} /\ SweeperStep)
                => transactions'[i].status = transactions[i].status]_vars

\* the mapping table of the specification
C9_Table(transaction_status, fraud_status) ==
    CASE transaction_status = "capture" /\ fraud_status = "accept"    -> "SUCCESS"
      [] transaction_status = "capture" /\ fraud_status = "challenge" -> "PENDING"
      [] transaction_status = "capture" /\ fraud_status \notin {"accept", "challenge"} -> "FAILED"
      [] transaction_status = "settlement"                            -> "SUCCESS"
      [] transaction_status = "pending"                               -> "PENDING"
      [] transaction_status \in {"deny", "cancel", "expire"}          -> "FAILED"
      [] OTHER                                                        -> "PENDING"

\* C9: with a valid signature processWebhookNotification returns the status
\* of the mapping table, and the activate flag is set exactly for SUCCESS
C9_StatusMapping ==
    \A n \in processed.notification, r \in processed.result :
        C5_SignatureMatches(n)
           => /\ r.threw = ""
              /\ r.orderId = n.order_id
              /\ r.status = C9_Table(n.transaction_status, n.fraud_status)
              /\ r.shouldActivate <=> (r.status = "SUCCESS")

C9_Witness ==
    \E n \in processed.notification, r \in processed.result :
        /\ C5_SignatureMatches(n)
        /\ n.transaction_status = "capture" /\ n.fraud_status = "deny"
        /\ r.status = "FAILED"

\* the notification reports a cleared payment
C10_Paid(n) ==
    \/ n.transaction_status = "settlement"
    \/ n.transaction_status = "capture" /\ n.fraud_status = "accept"

\* C10: a validly signed settlement (or capture + accept) for a PENDING
\* transaction of an UNPAID account ends with the transaction SUCCESS,
\* paymentMethod and paidAt set, and the account ACTIVE
C10_SuccessfulPayment ==
    \A p \in WebhookIds :
        (/\ webhook[p].pc = "done"
         /\ \E n \in webhook[p].notification : C5_SignatureMatches(n) /\ C10_Paid(n)
         /\ \E t \in webhook[p].transaction : t.status = "PENDING"
         /\ webhook[p].accountBefore = "UNPAID")
        => \A t \in webhook[p].transaction :
              /\ transactions[t.id].status = "SUCCESS"
              /\ transactions[t.id].paymentMethod # Null
              /\ transactions[t.id].paidAt # Null
              /\ architects[t.architectId] = "ACTIVE"
              /\ webhook[p].response = 200

C10_Witness ==
    \E p \in WebhookIds :
        /\ webhook[p].pc = "done"
        /\ \E n \in webhook[p].notification : C5_SignatureMatches(n) /\ C10_Paid(n)
        /\ \E t \in webhook[p].transaction :
              /\ t.status = "PENDING"
              /\ transactions[t.id].status = "SUCCESS"
              /\ transactions[t.id].paymentMethod = Some("BANK_TRANSFER")
              /\ architects[t.architectId] = "ACTIVE"
        /\ webhook[p].accountBefore = "UNPAID"

\* the notification maps to PENDING: pending, capture under fraud challenge,
\* or a gateway status the mapping does not know
C11_MapsToPending(n) ==
    \/ n.transaction_status = "pending"
    \/ n.transaction_status = "capture" /\ n.fraud_status = "challenge"
    \/ n.transaction_status \notin {"capture", "settlement", "pending", "deny", "cancel", "expire"}

\* C11: a validly signed notification that maps to PENDING, received for a
\* PENDING transaction, leaves the transaction PENDING, leaves the owning
\* account's status as it was and sends no e-mail
C11_PendingWebhook ==
    \A p \in WebhookIds :
        (/\ webhook[p].pc = "done"
         /\ \E n \in webhook[p].notification : C5_SignatureMatches(n) /\ C11_MapsToPending(n)
         /\ \E t \in webhook[p].transaction : t.status = "PENDING")
        => \A t \in webhook[p].transaction :
              /\ transactions[t.id].status = "PENDING"
              /\ architects[t.architectId] = webhook[p].accountBefore
              /\ webhook[p].architectWrites = 0
              /\ webhook[p].emailCalls = 0
              /\ webhook[p].response = 200

C11_Witness ==
    \E p \in WebhookIds :
        /\ webhook[p].pc = "done"
        /\ webhook[p].message = "Webhook processed successfully"
        /\ \E n \in webhook[p].notification :
              /\ C5_SignatureMatches(n)
              /\ n.transaction_status = "capture" /\ n.fraud_status = "challenge"
        /\ \E t \in webhook[p].transaction :
              /\ t.status = "PENDING"
              /\ transactions[t.id].status = "PENDING"
              /\ transactions[t.id].midtransResponse = webhook[p].notification

\* the rows holding the payment token
C12_Found(paymentToken) == {i \in Rows : transactions[i].paymentToken = paymentToken}

\* C12: validateForPayment answers 'not found' when no transaction has the
\* token, else 'already <status>' when the status is not PENDING (expired or
\* not), else 'expired' when now > expiredAt (swept or not), else valid; the
\* three reasons are distinct
C12_ValidateForPayment ==
    [][(payment.pc = "idle" /\ payment'.pc # "idle")
       => LET found == C12_Found(payment'.paymentToken)
          IN  /\ found = {}
                    => ~payment'.valid /\ payment'.message = "Payment link not found"
              /\ \A i \in found :
                    /\ transactions[i].status = "SUCCESS"
                          => ~payment'.valid /\ payment'.message = "Payment already success"
                    /\ transactions[i].status = "FAILED"
                          => ~payment'.valid /\ payment'.message = "Payment already failed"
                    /\ transactions[i].status = "EXPIRED"
                          => ~payment'.valid /\ payment'.message = "Payment already expired"
                    /\ (transactions[i].status = "PENDING" /\ now > transactions[i].expiredAt)
                          => ~payment'.valid /\ payment'.message = "Payment link has expired"
                    /\ (transactions[i].status = "PENDING" /\ now <= transactions[i].expiredAt)
                          => payment'.valid /\ payment'.error = ""
              /\ ~payment'.valid => payment'.pc = "done" /\ payment'.error = "BadRequestError"]_vars

\* a PENDING transaction past its expiry, not swept, reported expired; the
\* other transaction is past its expiry too but reported by its status
C12_Witness ==
    /\ payment.pc = "done"
    /\ payment.message = "Payment link has expired"
    /\ \E i \in C12_Found(payment.paymentToken) :
          /\ transactions[i].status = "PENDING"
          /\ now > transactions[i].expiredAt
    /\ \E j \in Rows : transactions[j].status = "SUCCESS" /\ now > transactions[j].expiredAt

\* the N rows of a sweep: PENDING and past their expiry
C13_Expired == {i \in Rows : transactions[i].status = "PENDING" /\ transactions[i].expiredAt < now}

\* C13: a sweep turns exactly the PENDING rows with expiredAt < now into
\* EXPIRED and reports their number; PENDING rows not yet expired and rows of
\* any other status are left as they are
C13_SweepCompleteness ==
    [][\A s \in SweeperIds :
          /\ (sweeper[s].pc = "idle" /\ sweeper'[s].pc # "idle")
                => /\ transactions' = transactions
                   /\ IF C13_Expired = {}
                      THEN sweeper'[s].pc = "done" /\ sweeper'[s].count = 0
                      ELSE sweeper'[s].pc = "mark"
          /\ (sweeper[s].pc = "mark" /\ sweeper'[s].pc # "mark")
                => /\ sweeper'[s].count = Cardinality(C13_Expired)
                   /\ \A i \in Rows :
                         IF i \in C13_Expired
                         THEN transactions'[i] = [transactions[i] EXCEPT !.status = "EXPIRED"]
                         ELSE transactions'[i] = transactions[i]]_vars

\* a sweep flipped one row and reported 1 while another row was PENDING and
\* not yet expired
C13_Witness ==
    \E s \in SweeperIds :
        /\ sweeper[s].pc = "email"
        /\ sweeper[s].count = 1
        /\ \E i, j \in Rows :
              /\ transactions[i].status = "EXPIRED"
              /\ transactions[i].expiredAt < now
              /\ transactions[j].status = "PENDING"
              /\ transactions[j].expiredAt >= now

\* the architects owning the rows a sweep has read
C14_Notified(s) == {t.architectId : t \in sweeper[s].expiredTransactions}

\* C14: a sweep attempts one expiry e-mail for each row it found PENDING and
\* expired, and a sweep started when no row is PENDING and expired finds
\* nothing, changes no transaction, returns count 0 and sends no e-mail
C14_SequentialSweeps ==
    [][\A s \in SweeperIds :
          /\ (sweeper[s].pc = "idle" /\ sweeper'[s].pc # "idle")
                => /\ {t.id : t \in sweeper'[s].expiredTransactions} = C13_Expired
                   /\ UNCHANGED <<users, userRegister, admins, changePassword, transactions, emails>>
                   /\ (\A i \in Rows : transactions[i].expiredAt < now
                                            => transactions[i].status # "PENDING")
                         => sweeper'[s].pc = "done" /\ sweeper'[s].count = 0
          /\ (sweeper[s].pc = "email" /\ sweeper'[s].pc # "email")
                => /\ \A a \in ArchitectIds :
                         emails'.paymentExpired[a] =
                            emails.paymentExpired[a] + (IF a \in C14_Notified(s) THEN 1 ELSE 0)
                   /\ emails'.welcome = emails.welcome
                   /\ emails'.paymentFailed = emails.paymentFailed
                   /\ transactions' = transactions]_vars

\* a second sweep that found nothing, after a first one that expired a row
\* and attempted its one e-mail
C14_Witness ==
    \E s \in SweeperIds :
        /\ sweeper[s].pc = "done"
        /\ sweeper[s].count = 0
        /\ sweeper[s].expiredTransactions = {}
        /\ served.sweeper = 2
        /\ \E i \in Rows :
              /\ transactions[i].status = "EXPIRED"
              /\ emails.paymentExpired[transactions[i].architectId] = 1

\* C15: with sweeps interleaved, no transaction gets more than one expiry
\* e-mail
C15_ConcurrentSweepers ==
    \A i \in Rows : emails.paymentExpired[transactions[i].architectId] <= 1

\* the step is an activation by the payment flow: activateAccount in
\* handleSuccessfulPayment, or the admin transaction override to SUCCESS
C16_ActivationStep ==
    \/ \E p \in WebhookIds : webhook[p].pc = "activate" /\ webhook'[p].pc # "activate"
    \/ admin.pc = "activate" /\ admin'.pc # "activate"

\* C16: an activation by the payment flow leaves a BANNED account BANNED
C16_BannedStaysBanned ==
    [][\A a \in DOMAIN architects :
          (architects[a] = "BANNED" /\ C16_ActivationStep) => architects'[a] = "BANNED"]_vars

\* C17: when the welcome or the payment-failed e-mail cannot be sent, the
\* webhook still ends with the success result, and the status written before
\* the send (and on SUCCESS the ACTIVE account) is kept
C17_NotificationFailureSwallowed ==
    \A p \in WebhookIds :
        (webhook[p].pc = "done" /\ webhook[p].emailFailed)
        => /\ webhook[p].response = 200
           /\ webhook[p].message = "Webhook processed successfully"
           /\ webhook[p].emailCalls = 1
           /\ \A n \in webhook[p].notification, t \in webhook[p].transaction :
                 /\ C9_Table(n.transaction_status, n.fraud_status) \in {"SUCCESS", "FAILED"}
                 /\ transactions[t.id].status = C9_Table(n.transaction_status, n.fraud_status)
                 /\ transactions[t.id].status = "SUCCESS" => architects[t.architectId] = "ACTIVE"

\* a settlement whose welcome e-mail failed
C17_Witness ==
    \E p \in WebhookIds :
        /\ webhook[p].pc = "done"
        /\ webhook[p].emailFailed
        /\ \E t \in webhook[p].transaction :
              /\ transactions[t.id].status = "SUCCESS"
              /\ architects[t.architectId] = "ACTIVE"
              /\ emails.welcome[t.architectId] = 1

\* C18: a validly signed notification whose order_id matches no stored
\* transaction fails with the not-found error in the step that receives it,
\* and no transaction and no account is created or modified
C18_UnknownOrder ==
    [][\A p \in WebhookIds :
          (webhook[p].pc = "idle" /\ webhook'[p].pc # "idle"
             /\ \E n \in webhook'[p].notification :
                   /\ C5_SignatureMatches(n)
                   /\ \A i \in Rows : transactions[i].orderId # n.order_id)
          => /\ webhook'[p].pc = "done"
             /\ webhook'[p].error = "NotFoundError"
             /\ webhook'[p].message = "Webhook received but processing failed"
             /\ webhook'[p].txWrites = 0 /\ webhook'[p].architectWrites = 0
             /\ webhook'[p].emailCalls = 0
             /\ transactions' = transactions
             /\ architects' = architects]_vars

\* the unknown order was refused while another order's transaction was stored
C18_Witness ==
    \E p \in WebhookIds :
        /\ webhook[p].pc = "done"
        /\ webhook[p].error = "NotFoundError"
        /\ \E n \in webhook[p].notification : n.order_id = generateOrderId(0)
        /\ \E i \in Rows : transactions[i].status = "PENDING"

\* C19: the webhook endpoint answers 200 on every path
C19_AlwaysOk ==
    \A p \in WebhookIds : webhook[p].pc = "done" => webhook[p].response = 200

\* C20: register ends successfully whether or not the gateway gave a Snap
\* token, and stores a PENDING transaction with the configured amount, the
\* generated orderId and paymentToken and the token obtained (null when there
\* was none); getPaymentInfo on a valid payment token whose transaction has
\* no Snap token asks the gateway, stores the token it gets and changes
\* nothing else, and changes nothing at all when the gateway fails
C20_GatewayIndependence ==
    [][/\ \A i \in ArchitectIds :
             (registration[i].pc = "transaction" /\ registration'[i].pc # "transaction")
             => /\ registration'[i].pc = "done"
                /\ i \notin DOMAIN transactions
                /\ i \in DOMAIN transactions'
                /\ transactions'[i].status = "PENDING"
                /\ transactions'[i].amount = ARCHITECT_REGISTRATION_FEE
                /\ transactions'[i].orderId = generateOrderId(i)
                /\ transactions'[i].paymentToken = generatePaymentToken(i)
                /\ transactions'[i].snapToken \in {Null, Some("snap-token")}
                /\ \A j \in DOMAIN transactions : transactions'[j] = transactions[j]
       /\ (payment.pc = "idle" /\ payment'.pc # "idle" /\ payment'.valid)
             => /\ transactions' = transactions
                /\ \A i \in C12_Found(payment'.paymentToken) :
                      IF transactions[i].snapToken = Null
                      THEN payment'.pc = "snap"
                      ELSE payment'.pc = "done" /\ payment'.snapToken = transactions[i].snapToken
       /\ (payment.pc = "snap" /\ payment'.pc # "snap")
             => /\ payment'.pc = "done"
                /\ payment'.error = ""
                /\ IF payment'.snapToken = Null
                   THEN transactions' = transactions
                   ELSE transactions' =
                           [transactions EXCEPT ![payment.id].snapToken = payment'.snapToken]]_vars

\* a transaction registered without a Snap token got it from a later
\* getPaymentInfo, while another one, whose gateway calls failed each time,
\* is still PENDING with no token
C20_Witness ==
    /\ payment.pc = "done"
    /\ payment.gatewayCalls = 1
    /\ payment.snapToken = Some("snap-token")
    /\ transactions[payment.id].snapToken = Some("snap-token")
    /\ transactions[payment.id].status = "PENDING"
    /\ \E j \in Rows : transactions[j].snapToken = Null /\ transactions[j].status = "PENDING"

\* the e-mail or the username of the request is that of a stored user
C26_Taken(data) == isEmailExists(users, data.email) \/ isUsernameExists(users, data.username)

C22_EventuallyClosed ==
    \A i \in ArchitectIds :
        (i \in Rows /\ transactions[i].status = "PENDING" /\ transactions[i].expiredAt < now)
        ~> (i \in Rows /\ transactions[i].status # "PENDING")

\* the first transaction was paid through the webhook; the second was left
\* unpaid past its expiry and a run of the cron job closed it
C22_Witness ==
    /\ Rows = {1, 2}
    /\ transactions[1].status = "SUCCESS"
    /\ transactions[2].status = "EXPIRED"
    /\ transactions[2].expiredAt < now
    /\ emails.paymentExpired[2] = 1
    /\ emails.paymentExpired[1] = 0
    /\ served.sweeper = 0

\* C23: within one sweep the count is the number of rows the bulk update
\* set to EXPIRED, and whichever sends of the expiry notification fail, the
\* notification is attempted exactly once for every transaction the sweep
\* read as expired, no transaction changes, the count stays and the sweep
\* returns
C23_SweeperErrorIsolation ==
    [][\A s \in SweeperIds :
          /\ (sweeper[s].pc = "mark" /\ sweeper'[s].pc # "mark")
             => sweeper'[s].count =
                   Cardinality({i \in Rows : /\ transactions[i].status = "PENDING"
                                              /\ transactions'[i].status = "EXPIRED"})
          /\ (sweeper[s].pc = "email" /\ sweeper'[s].pc # "email")
             => /\ sweeper'[s].pc = "done"
                /\ sweeper'[s].count = sweeper[s].count
                /\ transactions' = transactions
                /\ \A a \in ArchitectIds :
                      emails'.paymentExpired[a] =
                         emails.paymentExpired[a] + (IF a \in C14_Notified(s) THEN 1 ELSE 0)]_vars

\* a sweep set two transactions to EXPIRED; the notification for the first
\* failed, the one for the second was sent all the same, both are still
\* EXPIRED and the sweep returns the count 2
C23_Witness ==
    \E s \in SweeperIds :
        /\ sweeper[s].pc = "done"
        /\ sweeper[s].count = 2
        /\ sweeper[s].emailFailures = {1}
        /\ C14_Notified(s) = {1, 2}
        /\ emails.paymentExpired[1] = 1
        /\ emails.paymentExpired[2] = 1
        /\ \A i \in Rows : transactions[i].status = "EXPIRED"

\* C24: every call of activateAccount succeeds and leaves the account
\* ACTIVE; on an account that is already ACTIVE it changes nothing, so an
\* account activated once or several times from UNPAID is ACTIVE
C24_ActivationIdempotent ==
    [][\A p \in WebhookIds :
          (webhook[p].pc = "activate" /\ webhook'[p].pc # "activate")
          => /\ webhook'[p].pc = "welcome"
             /\ webhook'[p].error = ""
             /\ architects'[Snapshot(p).architectId] = "ACTIVE"
             /\ architects[Snapshot(p).architectId] = "ACTIVE" => architects' = architects
             /\ \A a \in DOMAIN architects : activations'[a] >= 1 => architects'[a] = "ACTIVE"]_vars

\* two deliveries of the settlement of the first order have both called
\* activateAccount: the account is ACTIVE
C24_Witness ==
    /\ activations[1] = 2
    /\ architects[1] = "ACTIVE"
    /\ \A p \in WebhookIds : webhook[p].error = ""

\* C25: in every reachable state a transaction's paymentMethod is non-null
\* only if its status is SUCCESS
C25_PaymentMethodOnlyOnSuccess ==
    \A i \in Rows : transactions[i].paymentMethod # Null => transactions[i].status = "SUCCESS"

\* C28: when a webhook request on a transaction that the webhook has written
\* to SUCCESS ends without an error (the reconciliation itself, or a
\* redelivery of the notification after a reconciliation whose activation
\* step failed), the owning account, unless banned, is ACTIVE
C28_PaymentImpliesActivation ==
    \A p \in WebhookIds :
        (/\ webhook[p].pc = "done"
         /\ webhook[p].error = ""
         /\ webhook[p].transaction # Null
         /\ transactions[Snapshot(p).id].status = "SUCCESS")
        => architects[Snapshot(p).architectId] \in {"ACTIVE", "BANNED"}

\* C29: the transactions for which a sweep sends the expiry notification
\* (those it read as expired before its bulk update) are all transitioned
\* from PENDING to EXPIRED by that sweep's bulk update: none of them was
\* moved to SUCCESS or FAILED by a webhook between the read and the update
C29_NotifiedOnlyIfTransitioned ==
    [][\A s \in SweeperIds :
          (sweeper[s].pc = "mark" /\ sweeper'[s].pc = "email")
          => \A t \in sweeper'[s].expiredTransactions :
                /\ transactions[t.id].status = "PENDING"
                /\ transactions'[t.id].status = "EXPIRED"]_vars

\* the transactions of architect a
C30_TransactionsOf(txs, a) == {i \in DOMAIN txs : txs[i].architectId = a}

\* C30: when register ends, whether it returns or throws, the architect
\* account it created has exactly one transaction, in status PENDING: no
\* failure of the transaction insert leaves an UNPAID architect without a
\* transaction
C30_RegistrationAllOrNothing ==
    [][\A i \in ArchitectIds :
          (registration[i].pc = "transaction" /\ registration'[i].pc # "transaction"
           /\ i \in DOMAIN architects')
          => /\ Cardinality(C30_TransactionsOf(transactions', i)) = 1
             /\ \A j \in C30_TransactionsOf(transactions', i) :
                   transactions'[j].status = "PENDING"]_vars

====
